---- MODULE Spec2Model ----
(***************************************************************************)
(* Model of src/utils/utils_greedy_bfs.py (topologiq): the exit            *)
(* classifier, the obstruction checker, the candidate generator, beam      *)
(* pruning, the lattice assembler and the rotation of pipe kinds.          *)
(*                                                                         *)
(* Every function of the file is a call on in-memory values.  The state    *)
(* holds the arguments of the call under study, the value it returned and, *)
(* for the randomized search, the locals of its loop.  Coordinates are     *)
(* triples <<x, y, z>>, Python strings are sequences of one-character      *)
(* strings, Python lists are sequences, Python dicts are sequences of      *)
(* <<key, value>> pairs in insertion order.  The list `occupied` is only   *)
(* ever tested for emptiness and membership, so it is held as a set.       *)
(***************************************************************************)
EXTENDS Integers, Sequences, FiniteSets, TLC

VARIABLES
    pc,                \* which call has returned ("start" before any)
    source_coord,      \* source_coord / node_coords / source_coords
    source_kind,       \* source_kind / node_kind
    target_coord,      \* target_coord / next_coords
    occupied,          \* occupied / occupied_coords
    all_beams,         \* all_beams
    length_of_beams,   \* length_of_beams
    step,              \* step
    valid_targets,     \* local of generate_tentative_target_positions
    attempts,          \* local of generate_tentative_target_positions
    pipe_type,         \* argument of rotate_o_types
    rotations,         \* how many times rotate_o_types was applied in a row
    edge_paths,        \* argument of build_newly_indexed_path_dict
    ret                \* the value returned by the last call

vars == <<pc, source_coord, source_kind, target_coord, occupied, all_beams,
          length_of_beams, step, valid_targets, attempts, pipe_type,
          rotations, edge_paths, ret>>

(***************************************************************************)
(* Bounds of the model.                                                    *)
(***************************************************************************)
MaxDisp == 2          \* targets lie up to MaxDisp cells from the source
MaxBeamLength == 3    \* length_of_beams ranges over 1..MaxBeamLength
MaxOccupied == 2      \* occupied holds at most MaxOccupied cells of its pool
MaxBeamsPerNode == 2  \* beams of one NodeBeams handed to prune_all_beams
MaxNodes == 2         \* NodeBeams entries handed to prune_all_beams
MaxRotations == 2     \* consecutive applications of rotate_o_types
MaxPaths == 2         \* edge paths handed to the assembler
MaxPathLen == 4       \* entries of one edge path
MaxId == 1            \* endpoint ids range over 0..MaxId

(***************************************************************************)
(* Generic helpers.                                                        *)
(***************************************************************************)
Abs(n) == IF n < 0 THEN -n ELSE n

Add(c, d) == <<c[1] + d[1], c[2] + d[2], c[3] + d[3]>>

Scale(d, k) == <<d[1] * k, d[2] * k, d[3] * k>>

Manhattan(s, t) == Abs(t[1] - s[1]) + Abs(t[2] - s[2]) + Abs(t[3] - s[3])

Range(f) == {f[i] : i \in DOMAIN f}

SeqsUpTo(S, n) == UNION {[1..k -> S] : k \in 0..n}

NoValue == [raised |-> FALSE, value |-> FALSE]

Returned(v) == [raised |-> FALSE, value |-> v]

Raised == [raised |-> TRUE, value |-> FALSE]

(***************************************************************************)
(* Input pools.                                                            *)
(***************************************************************************)
Sources == {<<0, 0, 0>>, <<3, -3, 6>>}

directional_array ==
    << <<1, 0, 0>>, <<-1, 0, 0>>, <<0, 1, 0>>, <<0, -1, 0>>, <<0, 0, 1>>, <<0, 0, -1>> >>

Deltas ==
    {Scale(directional_array[i], k) : i \in 1..6, k \in 1..MaxDisp}
        \cup {<<0, 0, 0>>, <<1, 1, 0>>, <<0, -2, 3>>}

Chars == {"o", "x", "z", "X"}

Kinds == [1..3 -> Chars] \cup {k \o <<"h">> : k \in [1..3 -> Chars]}

(***************************************************************************)
(* check_is_exit                                                           *)
(***************************************************************************)
Lower(c) == IF c = "X" THEN "x" ELSE c

\* source_kind.lower()[:3], then the list of its three characters
kind_3D(kind) == [i \in 1..3 |-> Lower(kind[i])]

Count(k3, c) == Cardinality({i \in 1..3 : k3[i] = c})

\* the characters of set(kind_3D) that occur exactly twice
DoubledChars(k3) == {c \in Range(k3) : Count(k3, c) = 2}

\* line 32 indexes [0] of an empty list when no character occurs twice
ExitMarkerRaises(kind) ==
    LET k3 == kind_3D(kind) IN "o" \notin Range(k3) /\ DoubledChars(k3) = {}

\* the marker taken to be the character that occurs once, not twice
exit_marker_single(kind) ==
    LET k3 == kind_3D(kind)
    IN  IF "o" \in Range(k3) THEN "o" ELSE CHOOSE c \in Range(k3) : Count(k3, c) = 1

exit_marker(kind) ==
    LET k3 == kind_3D(kind)
    IN  IF "o" \in Range(k3) THEN "o" ELSE CHOOSE c \in DoubledChars(k3) : TRUE

\* 1-based axis indices whose character is the exit marker
valid_exit_indices(kind) ==
    LET k3 == kind_3D(kind) IN {i \in 1..3 : k3[i] = exit_marker(kind)}

\* first axis with a nonzero displacement, 0 when there is none (-1 in the code)
displacement_axis_index(s, t) ==
    IF \E i \in 1..3 : t[i] - s[i] # 0
    THEN CHOOSE i \in 1..3 : t[i] - s[i] # 0 /\ \A j \in 1..(i - 1) : t[j] - s[j] = 0
    ELSE 0

check_is_exit(s, kind, t) ==
    IF ExitMarkerRaises(kind) THEN Raised
    ELSE LET a == displacement_axis_index(s, t)
         IN  Returned(a # 0 /\ a \in valid_exit_indices(kind))

(***************************************************************************)
(* check_unobstructed                                                      *)
(***************************************************************************)
Sign(d) == IF d > 0 THEN 1 ELSE IF d < 0 THEN -1 ELSE 0

directions(s, t) == [i \in 1..3 |-> Sign(t[i] - s[i])]

\* cells source + i * direction for i in range(1, length_of_beams)
single_beam_for_exit(s, t, len) ==
    [i \in 1..(IF len > 1 THEN len - 1 ELSE 0) |-> Add(s, Scale(directions(s, t), i))]

\* Python's ==: values of different types (a tuple and a list) are never equal
PyEq(a, b) == a.type = b.type /\ a.value = b.value

PyTuple(v) == [type |-> "tuple", value |-> v]

PyList(v) == [type |-> "list", value |-> v]

\* `coord in all_beams`: coord is a tuple, every element of all_beams is a
\* NodeBeams, a list of beams
CoordInAllBeams(coord, beams) ==
    \E i \in DOMAIN beams : PyEq(PyTuple(coord), PyList(beams[i]))

check_unobstructed(s, t, occ, beams, len) ==
    LET beam == single_beam_for_exit(s, t, len)
    IN  IF occ = {} THEN [ok |-> TRUE, beam |-> beam]
        ELSE IF \E i \in DOMAIN beam : beam[i] \in occ \/ CoordInAllBeams(beam[i], beams)
             THEN [ok |-> FALSE, beam |-> beam]
             ELSE [ok |-> TRUE, beam |-> beam]

(***************************************************************************)
(* check_for_exits                                                         *)
(***************************************************************************)
RECURSIVE ExitsFrom(_, _, _, _, _, _, _)
\* the loop over directional_array from index i on, acc = (count, node_beams)
ExitsFrom(i, s, kind, occ, beams, len, acc) ==
    IF i > Len(directional_array) THEN acc
    ELSE LET t == Add(s, directional_array[i])
             r == check_unobstructed(s, t, occ, beams, len)
         IN  IF check_is_exit(s, kind, t).value /\ r.ok
             THEN ExitsFrom(i + 1, s, kind, occ, beams, len,
                            [n |-> acc.n + 1, node_beams |-> Append(acc.node_beams, r.beam)])
             ELSE ExitsFrom(i + 1, s, kind, occ, beams, len, acc)

check_for_exits(s, kind, occ, beams, len) ==
    IF ExitMarkerRaises(kind) THEN Raised
    ELSE Returned(ExitsFrom(1, s, kind, occ, beams, len, [n |-> 0, node_beams |-> <<>>]))

(***************************************************************************)
(* is_move_allowed                                                         *)
(***************************************************************************)
\* a distance of zero refused
is_move_allowed_positive(s, n) == Manhattan(s, n) > 0 /\ Manhattan(s, n) % 3 = 0

is_move_allowed(s, n) == Manhattan(s, n) % 3 = 0

(***************************************************************************)
(* generate_tentative_target_positions                                     *)
(***************************************************************************)
target_count == 12

max_attempts == 500

GenSources == {<<0, 0, 0>>, <<3, -3, 6>>}

GenOccupiedPool == {<<3, 0, 0>>, <<3, 3, 0>>, <<3, 3, 3>>, <<0, -3, 3>>}

GenOccupied == {o \in SUBSET GenOccupiedPool : Cardinality(o) <= MaxOccupied}

Steps == {1, 3, 6, 9, 10, 12}

\* <<source, step, occupied>> of the calls that enter the randomized search
SearchInputs ==
    { <<<<0, 0, 0>>, 12, {<<12, 0, 0>>, <<3, 3, 6>>, <<1, 1, 1>>}>>,
      <<<<3, -3, 6>>, 12, {}>> }

RECURSIVE SetToSeq(_)
\* list(a_set): the elements, each once, in an order the program does not choose
SetToSeq(S) ==
    IF S = {} THEN <<>>
    ELSE LET x == CHOOSE y \in S : TRUE IN <<x>> \o SetToSeq(S \ {x})

\* [coords for coords in targets if coords not in occupied_coords], targets a list
FilterList(targets, occ) == SelectSeq(targets, LAMBDA c : c \notin occ)

\* the same comprehension over a set of targets
FilterSet(targets, occ) == SetToSeq({c \in targets : c \notin occ})

Targets3(s) ==
    << Add(s, <<3, 0, 0>>), Add(s, <<-3, 0, 0>>), Add(s, <<0, 3, 0>>),
       Add(s, <<0, -3, 0>>), Add(s, <<0, 0, 3>>), Add(s, <<0, 0, -3>>) >>

\* lines 208-216: the two inner loop nests run once per outer dx and add the
\* same cells each time
Targets6(s) ==
    UNION {      {Add(s, <<dx, dy, 0>>) : dy \in {-3, 3}}
            \cup {Add(s, <<dx2, 0, dz>>) : dx2 \in {-3, 3}, dz \in {-3, 3}}
            \cup {Add(s, <<0, dy, dz>>) : dy \in {-3, 3}, dz \in {-3, 3}}
            : dx \in {-3, 3}}

Targets9(s) ==
    {Add(s, <<dx, dy, dz>>) : dx \in {-3, 3}, dy \in {-3, 3}, dz \in {-3, 3}}

\* range(-r, r + 1, 3)
Range3(r) == {-r + 3 * k : k \in 0..((2 * r) \div 3)}

permutations(mx, my, mz) ==
    {<<mx, my, mz>>, <<mx, mz, my>>, <<my, mx, mz>>,
     <<my, mz, mx>>, <<mz, mx, my>>, <<mz, my, mx>>}

\* the pass without its `not in occupied_coords` tests
AttemptTargetsUnfiltered(s, st, occ, move_x, move_y) ==
    LET move_z == (st - Abs(move_x)) - Abs(move_y)
        moves  == {<<move_x, move_y, move_z>>} \cup permutations(move_x, move_y, move_z)
    IN  {Add(s, m) : m \in {q \in moves : Abs(q[1]) + Abs(q[2]) + Abs(q[3]) = st}}

\* what one pass of the while loop adds to valid_targets, lines 239-280
AttemptTargets(s, st, occ, move_x, move_y) ==
    LET move_z == (st - Abs(move_x)) - Abs(move_y)
        moves  == {<<move_x, move_y, move_z>>} \cup permutations(move_x, move_y, move_z)
    IN  {Add(s, m) : m \in {q \in moves : Abs(q[1]) + Abs(q[2]) + Abs(q[3]) = st
                                           /\ Add(s, q) \notin occ}}

\* the condition of the while loop, line 238
SearchContinues(found, tries) ==
    Cardinality(found) < target_count /\ tries < max_attempts

IsRandomizedStep(st) == st > 9 /\ st % 3 = 0

\* the branches that return without a loop, lines 192-231 and the fall-through
SmallStepTargets(s, st, occ) ==
    IF st = 3 THEN FilterList(Targets3(s), occ)
    ELSE IF st = 6 THEN FilterSet(Targets6(s), occ)
    ELSE IF st = 9 THEN FilterSet(Targets9(s), occ)
    ELSE <<>>

(***************************************************************************)
(* prune_all_beams                                                         *)
(***************************************************************************)
PruneOccupiedPool == {<<1, 0, 0>>, <<2, 0, 0>>}

PruneBeams == {<< <<1, 0, 0>>, <<2, 0, 0>> >>, << <<2, 0, 0>> >>, << <<0, 3, 0>> >>}

PruneNodeBeams == SeqsUpTo(PruneBeams, MaxBeamsPerNode)

PruneInputs == SeqsUpTo(PruneNodeBeams, MaxNodes)

\* all([coord not in occupied_coords for coord in single_beam])
BeamIsClear(single_beam, occ) == \A i \in DOMAIN single_beam : single_beam[i] \notin occ

\* the inner loop, lines 306-309
new_node_beams(node_beams, occ) == SelectSeq(node_beams, LAMBDA b : BeamIsClear(b, occ))

\* every per-node list appended, empty or not
KeepEveryNodeBeams(kept) == TRUE

\* line 310: only a non-empty list of surviving beams is appended
KeepNodeBeams(kept) == kept # <<>>

RECURSIVE PruneFrom(_, _, _, _)
\* the outer loop from index i on, acc = new_all_beams
PruneFrom(i, beams, occ, acc) ==
    IF i > Len(beams) THEN acc
    ELSE LET kept == new_node_beams(beams[i], occ)
         IN  PruneFrom(i + 1, beams, occ,
                       IF KeepNodeBeams(kept) THEN Append(acc, kept) ELSE acc)

prune_all_beams(beams, occ) == PruneFrom(1, beams, occ, <<>>)

(***************************************************************************)
(* rotate_o_types                                                          *)
(***************************************************************************)
\* str.index(c), 1-based; 0 stands for the ValueError of a missing character
IndexOf(str, c) ==
    IF \E i \in DOMAIN str : str[i] = c
    THEN CHOOSE i \in DOMAIN str : str[i] = c /\ \A j \in 1..(i - 1) : str[j] # c
    ELSE 0

\* np.eye(3, dtype=int)[i], 1-based
EyeRow(i) == [j \in 1..3 |-> IF j = i THEN 1 ELSE 0]

\* [0, 1, 2] after .remove(o), 1-based
available_indexes(o) == SelectSeq(<<1, 2, 3>>, LAMBDA i : i # o)

\* the matrix with the two non-exit rows left in place
rotation_matrix_identity(o) == [r \in 1..3 |-> EyeRow(r)]

\* rows 0, 1, 2 of rotation_matrix, lines 417-423
rotation_matrix(o) ==
    LET av == available_indexes(o)
    IN  [r \in 1..3 |-> IF r = o THEN EyeRow(o)
                        ELSE IF r = av[1] THEN EyeRow(av[2])
                        ELSE EyeRow(av[1])]

\* n * c for a character c
Repeat(c, n) == [i \in 1..n |-> c]

\* the inner loop, lines 428-430: j runs over the three entries of the row
RowEntry(row, str) ==
    Repeat(str[1], Abs(row[1])) \o Repeat(str[2], Abs(row[2])) \o Repeat(str[3], Abs(row[3]))

\* line 411 discards the result of replace(), so pipe_type keeps its "h"
rotate_o_types(str) ==
    LET h_flag == \E i \in DOMAIN str : str[i] = "h"
        o      == IndexOf(str, "o")
    IN  IF o = 0 \/ o > 3 THEN Raised
        ELSE LET m    == rotation_matrix(o)
                 name == RowEntry(m[1], str) \o RowEntry(m[2], str) \o RowEntry(m[3], str)
             IN  Returned(IF h_flag THEN name \o <<"h">> ELSE name)

(***************************************************************************)
(* build_newly_indexed_path_dict                                           *)
(***************************************************************************)
\* d[k] = v on a dict held as a sequence of <<key, value>> in insertion order
DictSet(d, k, v) ==
    IF \E i \in DOMAIN d : d[i][1] = k
    THEN [i \in DOMAIN d |-> IF d[i][1] = k THEN <<k, v>> ELSE d[i]]
    ELSE Append(d, <<k, v>>)

DictHas(d, k) == \E i \in DOMAIN d : d[i][1] = k

DictGet(d, k) == d[CHOOSE i \in DOMAIN d : d[i][1] = k][2]

Max(a, b) == IF a >= b THEN a ELSE b

RECURSIVE MaxIdFrom(_, _, _)
\* lines 332-335
MaxIdFrom(i, paths, acc) ==
    IF i > Len(paths) THEN acc
    ELSE MaxIdFrom(i + 1, paths,
                   Max(Max(acc, paths[i].src_tgt_ids[1]), paths[i].src_tgt_ids[2]))

max_id(paths) == MaxIdFrom(1, paths, 0)

\* the counter started at the greatest endpoint id itself
FirstFreshIdNoGap(paths) == max_id(paths)

\* line 336
FirstFreshId(paths) == max_id(paths) + 1

\* line 349
Bump(next_id) == next_id + 1

RECURSIVE Intermediates(_, _, _)
\* lines 346-349 from index i (1-based) on; acc = [path, next_id, keys], keys
\* being the key written by each assignment to indexed_path so far
Intermediates(i, nodes, acc) ==
    IF i > Len(nodes) - 1 THEN acc
    ELSE Intermediates(i + 1, nodes,
            [path    |-> DictSet(acc.path, acc.next_id, nodes[i]),
             next_id |-> Bump(acc.next_id),
             keys    |-> Append(acc.keys, acc.next_id)])

\* lines 340-352 for one edge path with a non-empty path_nodes
IndexOnePath(edge_path, next_id) ==
    LET start_key == edge_path.src_tgt_ids[1]
        end_key   == edge_path.src_tgt_ids[2]
        nodes     == edge_path.path_nodes
        mid       == Intermediates(2, nodes,
                        [path    |-> <<<<start_key, nodes[1]>>>>,
                         next_id |-> next_id,
                         keys    |-> <<start_key>>])
    IN  IF Len(nodes) > 1
        THEN [path    |-> DictSet(mid.path, end_key, nodes[Len(nodes)]),
              next_id |-> mid.next_id,
              keys    |-> Append(mid.keys, end_key)]
        ELSE mid

RECURSIVE IndexFrom(_, _, _)
\* the loop of lines 338-354 from path i on; acc = [indexed_paths, next_id,
\* keys, raised]; nodes_in_path[0] raises IndexError on an empty path
IndexFrom(i, paths, acc) ==
    IF i > Len(paths) \/ acc.raised THEN acc
    ELSE IF Len(paths[i].path_nodes) = 0 THEN [acc EXCEPT !.raised = TRUE]
    ELSE LET one == IndexOnePath(paths[i], acc.next_id)
         IN  IndexFrom(i + 1, paths,
                [indexed_paths |-> DictSet(acc.indexed_paths, paths[i].src_tgt_ids, one.path),
                 next_id       |-> one.next_id,
                 keys          |-> Append(acc.keys, one.keys),
                 raised        |-> FALSE])

indexed_paths(paths) ==
    IndexFrom(1, paths,
        [indexed_paths |-> <<>>, next_id |-> FirstFreshId(paths), keys |-> <<>>,
         raised |-> FALSE])

RECURSIVE LatticeItem(_, _, _)
\* lines 381-391 for one indexed path from position i (1-based) on;
\* acc = [nodes, edges, raised]; keys[i + 1] raises IndexError past the end
LatticeItem(i, item, acc) ==
    IF i > Len(item) \/ acc.raised THEN acc
    ELSE IF (i - 1) % 2 = 0
    THEN LatticeItem(i + 1, item, [acc EXCEPT !.nodes = DictSet(@, item[i][1], item[i][2])])
    ELSE IF i + 1 > Len(item) THEN [acc EXCEPT !.raised = TRUE]
    ELSE LatticeItem(i + 1, item,
            [acc EXCEPT !.edges = DictSet(@, <<item[i - 1][1], item[i + 1][1]>>, item[i][2][2])])

RECURSIVE LatticeFrom(_, _, _)
\* the loop of lines 379-391 over indexed_paths.values()
LatticeFrom(i, ipaths, acc) ==
    IF i > Len(ipaths) \/ acc.raised THEN acc
    ELSE LatticeFrom(i + 1, ipaths, LatticeItem(1, ipaths[i][2], acc))

\* lines 356-375 fill final_edges, which is never read afterwards
build_newly_indexed_path_dict(paths) ==
    LET ix == indexed_paths(paths)
    IN  IF ix.raised THEN Raised
        ELSE LET lat == LatticeFrom(1, ix.indexed_paths,
                            [nodes |-> <<>>, edges |-> <<>>, raised |-> FALSE])
             IN  IF lat.raised THEN Raised
                 ELSE Returned([nodes |-> lat.nodes, edges |-> lat.edges])

(***************************************************************************)
(* Edge paths handed to the assembler: endpoint ids name one block each,   *)
(* every other entry of every path is a value of its own.                  *)
(***************************************************************************)
AsmBlockOf(id) == <<<<3 * id, 0, 0>>, "xxz">>

AsmNode(p, s, e, len, i) ==
    IF i = 1 THEN AsmBlockOf(s)
    ELSE IF i = len /\ len % 2 = 1 THEN AsmBlockOf(e)
    ELSE IF i % 2 = 1 THEN <<<<i, 3 * p, 0>>, "zzx">>
    ELSE <<<<i, 3 * p, 0>>, IF p % 2 = 1 THEN "ozx" ELSE "xozh">>

AsmPath(p, s, e, len) ==
    [src_tgt_ids |-> <<s, e>>, path_nodes |-> [i \in 1..len |-> AsmNode(p, s, e, len, i)]]

AsmShapes == [s : 0..MaxId, e : 0..MaxId, len : 0..MaxPathLen]

(***************************************************************************)
(* Obstruction-checker inputs.                                             *)
(***************************************************************************)
ObsOccupiedPool == {<<1, 0, 0>>, <<0, -2, 0>>, <<3, -3, 7>>, <<9, 9, 9>>}

ObsOccupied == {o \in SUBSET ObsOccupiedPool : Cardinality(o) <= MaxOccupied}

ObsAllBeams ==
    { <<>>,
      << << << <<1, 0, 0>>, <<2, 0, 0>> >> >> >>,
      << << << <<0, 1, 0>> >>, << <<0, 0, -1>>, <<0, 0, -2>> >> >>,
         << << <<3, -3, 5>>, <<3, -3, 4>> >> >> >> }

MoveOffsets == {<<a, b, c>> : a \in (-MaxDisp)..MaxDisp, b \in (-MaxDisp)..MaxDisp,
                              c \in (-MaxDisp)..MaxDisp}

(***************************************************************************)
(* The state before any call.                                              *)
(***************************************************************************)
Idle(names) ==
    /\ pc = "start"
    /\ ret = NoValue
    /\ valid_targets = {}
    /\ attempts = 0
    /\ rotations = 0
    /\ "source_coord" \in names \/ source_coord = <<0, 0, 0>>
    /\ "source_kind" \in names \/ source_kind = <<"x", "x", "z">>
    /\ "target_coord" \in names \/ target_coord = <<0, 0, 0>>
    /\ "occupied" \in names \/ occupied = {}
    /\ "all_beams" \in names \/ all_beams = <<>>
    /\ "length_of_beams" \in names \/ length_of_beams = 1
    /\ "step" \in names \/ step = 3
    /\ "pipe_type" \in names \/ pipe_type = <<"o", "x", "z">>
    /\ "edge_paths" \in names \/ edge_paths = <<>>

args == <<source_coord, source_kind, target_coord, occupied, all_beams,
          length_of_beams, step, pipe_type, edge_paths>>

(***************************************************************************)
(* Exit classifier: check_is_exit and check_for_exits.                     *)
(***************************************************************************)
InitExit ==
    /\ source_coord \in Sources
    /\ source_kind \in Kinds
    /\ target_coord \in {Add(source_coord, d) : d \in Deltas}
    /\ occupied \in {{}, {<<1, 0, 0>>, <<3, -3, 7>>}}
    /\ length_of_beams \in 1..MaxBeamLength
    /\ Idle({"source_coord", "source_kind", "target_coord", "occupied", "length_of_beams"})

CheckIsExit ==
    /\ pc = "start"
    /\ pc' = "check_is_exit"
    /\ ret' = check_is_exit(source_coord, source_kind, target_coord)
    /\ UNCHANGED <<args, valid_targets, attempts, rotations>>

CheckForExits ==
    /\ pc = "start"
    /\ pc' = "check_for_exits"
    /\ ret' = check_for_exits(source_coord, source_kind, occupied, all_beams, length_of_beams)
    /\ UNCHANGED <<args, valid_targets, attempts, rotations>>

NextExit == CheckIsExit \/ CheckForExits

SpecExit == InitExit /\ [][NextExit]_vars

(***************************************************************************)
(* Obstruction checker: check_unobstructed.                                *)
(***************************************************************************)
InitObs ==
    /\ source_coord \in Sources
    /\ target_coord \in {Add(source_coord, d) : d \in Deltas}
    /\ occupied \in ObsOccupied
    /\ all_beams \in ObsAllBeams
    /\ length_of_beams \in 1..MaxBeamLength
    /\ Idle({"source_coord", "target_coord", "occupied", "all_beams", "length_of_beams"})

CheckUnobstructed ==
    /\ pc = "start"
    /\ pc' = "check_unobstructed"
    /\ ret' = Returned(check_unobstructed(source_coord, target_coord, occupied, all_beams,
                                          length_of_beams))
    /\ UNCHANGED <<args, valid_targets, attempts, rotations>>

NextObs == CheckUnobstructed

SpecObs == InitObs /\ [][NextObs]_vars

(***************************************************************************)
(* is_move_allowed.                                                        *)
(***************************************************************************)
InitMove ==
    /\ source_coord \in Sources
    /\ target_coord \in {Add(source_coord, d) : d \in MoveOffsets}
    /\ Idle({"source_coord", "target_coord"})

IsMoveAllowed ==
    /\ pc = "start"
    /\ pc' = "is_move_allowed"
    /\ ret' = Returned(is_move_allowed(source_coord, target_coord))
    /\ UNCHANGED <<args, valid_targets, attempts, rotations>>

NextMove == IsMoveAllowed

SpecMove == InitMove /\ [][NextMove]_vars

(***************************************************************************)
(* generate_tentative_target_positions.  The closed-form branches return   *)
(* in one step; the randomized search takes one step per pass of its while *)
(* loop, the two random.choice draws being the inputs of the step.         *)
(***************************************************************************)
InitGen ==
    /\ \/ /\ source_coord \in GenSources
          /\ step \in {st \in Steps : ~IsRandomizedStep(st)}
          /\ occupied \in GenOccupied
       \/ \E inp \in SearchInputs :
             /\ source_coord = inp[1]
             /\ step = inp[2]
             /\ occupied = inp[3]
    /\ Idle({"source_coord", "step", "occupied"})

GenerateSmallStep ==
    /\ pc = "start"
    /\ ~IsRandomizedStep(step)
    /\ pc' = "generated"
    /\ ret' = Returned(SmallStepTargets(source_coord, step, occupied))
    /\ UNCHANGED <<args, valid_targets, attempts, rotations>>

SearchAttempt ==
    /\ pc = "start"
    /\ IsRandomizedStep(step)
    /\ SearchContinues(valid_targets, attempts)
    /\ \E move_x \in Range3(step) :
         \E move_y \in Range3(step - Abs(move_x)) :
            valid_targets' = valid_targets
                \cup AttemptTargets(source_coord, step, occupied, move_x, move_y)
    /\ attempts' = attempts + 1
    /\ UNCHANGED <<args, pc, ret, rotations>>

SearchReturn ==
    /\ pc = "start"
    /\ IsRandomizedStep(step)
    /\ ~SearchContinues(valid_targets, attempts)
    /\ pc' = "generated"
    /\ ret' = Returned(SetToSeq(valid_targets))
    /\ UNCHANGED <<args, valid_targets, attempts, rotations>>

NextGen == GenerateSmallStep \/ SearchAttempt \/ SearchReturn

SpecGen == InitGen /\ [][NextGen]_vars

(***************************************************************************)
(* prune_all_beams.                                                        *)
(***************************************************************************)
InitPrune ==
    /\ all_beams \in PruneInputs
    /\ occupied \in SUBSET PruneOccupiedPool
    /\ Idle({"all_beams", "occupied"})

PruneAllBeams ==
    /\ pc = "start"
    /\ pc' = "prune_all_beams"
    /\ ret' = Returned(prune_all_beams(all_beams, occupied))
    /\ UNCHANGED <<args, valid_targets, attempts, rotations>>

NextPrune == PruneAllBeams

SpecPrune == InitPrune /\ [][NextPrune]_vars

(***************************************************************************)
(* rotate_o_types, applied to a kind and then to its own result.           *)
(***************************************************************************)
InitRotate ==
    /\ pipe_type \in Kinds
    /\ Idle({"pipe_type"})

RotateOTypes ==
    /\ rotations < MaxRotations
    /\ ~ret.raised
    /\ pc' = "rotate_o_types"
    /\ ret' = rotate_o_types(IF rotations = 0 THEN pipe_type ELSE ret.value)
    /\ rotations' = rotations + 1
    /\ UNCHANGED <<args, valid_targets, attempts>>

NextRotate == RotateOTypes

SpecRotate == InitRotate /\ [][NextRotate]_vars

(***************************************************************************)
(* build_newly_indexed_path_dict.                                          *)
(***************************************************************************)
InitAssemble ==
    /\ \E n \in 0..MaxPaths :
         \E f \in [1..n -> AsmShapes] :
            edge_paths = [p \in 1..n |-> AsmPath(p, f[p].s, f[p].e, f[p].len)]
    /\ Idle({"edge_paths"})

Assemble ==
    /\ pc = "start"
    /\ pc' = "build_newly_indexed_path_dict"
    /\ ret' = build_newly_indexed_path_dict(edge_paths)
    /\ UNCHANGED <<args, valid_targets, attempts, rotations>>

NextAssemble == Assemble

SpecAssemble == InitAssemble /\ [][NextAssemble]_vars

(***************************************************************************)
(* Vocabulary of the claims.                                               *)
(***************************************************************************)
\* Manhattan distance, written as the sum of the per-axis gaps
Distance(s, t) ==
    LET gap(i) == IF s[i] >= t[i] THEN s[i] - t[i] ELSE t[i] - s[i]
    IN  gap(1) + gap(2) + gap(3)

IsMultipleOf3(n) == \E k \in 0..n : n = 3 * k

\* the axes along which two coordinates differ
DifferingAxes(s, t) == {i \in 1..3 : s[i] # t[i]}

\* the three lower-cased base characters of a kind
Base(kind) == <<Lower(kind[1]), Lower(kind[2]), Lower(kind[3])>>

Occurrences(kind, c) == {i \in 1..3 : Base(kind)[i] = c}

HasO(kind) == Occurrences(kind, "o") # {}

HasDoubledChar(kind) ==
    \E c \in {"x", "z"} : Cardinality(Occurrences(kind, c)) = 2

\* a kind the claims call well-formed
WellFormedKind(kind) == HasO(kind) \/ (~HasO(kind) /\ HasDoubledChar(kind))

\* the well-formed kinds with no second or third 'o'
SingleMarkerKind(kind) ==
    Cardinality(Occurrences(kind, "o")) = 1 \/ (~HasO(kind) /\ HasDoubledChar(kind))

\* the axes that carry the exit marker of a well-formed kind
MarkedAxes(kind) ==
    IF HasO(kind) THEN Occurrences(kind, "o")
    ELSE UNION {Occurrences(kind, c) : c \in {c \in {"x", "z"} : Cardinality(Occurrences(kind, c)) = 2}}

(***************************************************************************)
(* C1: with a non-empty occupied list, check_unobstructed answers False    *)
(* exactly when a synthesized beam cell is in occupied or is a cell of a   *)
(* beam of some NodeBeams entry of all_beams.                              *)
(***************************************************************************)
SynthesizedCells ==
    {Add(source_coord, Scale(directions(source_coord, target_coord), i))
        : i \in 1..(length_of_beams - 1)}

ReservedCells ==
    UNION {UNION {Range(all_beams[n][b]) : b \in DOMAIN all_beams[n]} : n \in DOMAIN all_beams}

C1_ObstructedIffCellTaken ==
    (pc = "check_unobstructed" /\ occupied # {})
        => (ret.value.ok = FALSE
                <=> \E c \in SynthesizedCells : c \in occupied \/ c \in ReservedCells)

(***************************************************************************)
(* C2: for a step that is a multiple of 3 greater than 9 the generator     *)
(* returns at most 12 candidates.                                          *)
(***************************************************************************)
C2_AtMostTwelve ==
    (pc = "generated" /\ step > 9 /\ IsMultipleOf3(step)) => Len(ret.value) <= 12

(***************************************************************************)
(* C3: is_move_allowed is True iff the Manhattan distance is a positive    *)
(* multiple of 3, so False when source equals target.                      *)
(***************************************************************************)
C3_PositiveMultipleOf3 ==
    pc = "is_move_allowed"
        => (ret.value <=> (Distance(source_coord, target_coord) > 0
                           /\ IsMultipleOf3(Distance(source_coord, target_coord))))

\* C3 as amended: is_move_allowed is True iff the Manhattan distance is a
\* multiple of 3, zero included, so True when source equals target.
C3_MultipleOf3 ==
    pc = "is_move_allowed"
        => (ret.value <=> IsMultipleOf3(Distance(source_coord, target_coord)))

C3_Witness ==
    /\ pc = "is_move_allowed"
    /\ source_coord = target_coord
    /\ ret.value = TRUE

(***************************************************************************)
(* C7: for a well-formed kind and coordinates differing along exactly one  *)
(* axis, check_is_exit is True iff that axis is the single exit axis       *)
(* marked in the kind; exactly one axis is an exit axis and exactly 2 of   *)
(* the 6 axis-aligned unit neighbours are classified as exits.             *)
(***************************************************************************)
C7_SingleExitAxis ==
    /\ (pc = "check_is_exit" /\ SingleMarkerKind(source_kind)
            /\ Cardinality(DifferingAxes(source_coord, target_coord)) = 1)
        => /\ ~ret.raised
           /\ \E axis \in 1..3 :
                 ret.value <=> DifferingAxes(source_coord, target_coord) = {axis}
    /\ (pc = "check_for_exits" /\ SingleMarkerKind(source_kind) /\ occupied = {})
        => /\ ~ret.raised
           /\ ret.value.n = 2

\* C7 as amended: for a well-formed kind and coordinates differing along
\* exactly one axis, check_is_exit is True iff the kind carries its exit
\* marker ('o' if present, else the doubled character) at that axis; every
\* axis carrying the marker is an exit axis (one for a single 'o', two for a
\* doubled character), and of the 6 axis-aligned unit neighbours exactly
\* twice as many as there are marked axes are classified as exits.
C7_MarkedAxesAreExits ==
    /\ (pc = "check_is_exit" /\ WellFormedKind(source_kind)
            /\ Cardinality(DifferingAxes(source_coord, target_coord)) = 1)
        => /\ ~ret.raised
           /\ ret.value <=> DifferingAxes(source_coord, target_coord) \subseteq MarkedAxes(source_kind)
    /\ (pc = "check_for_exits" /\ WellFormedKind(source_kind) /\ occupied = {})
        => /\ ~ret.raised
           /\ ret.value.n = 2 * Cardinality(MarkedAxes(source_kind))
           /\ HasO(source_kind) /\ Cardinality(Occurrences(source_kind, "o")) = 1
                => ret.value.n = 2
           /\ ~HasO(source_kind) => ret.value.n = 4

C7_Witness ==
    /\ pc = "check_for_exits"
    /\ ~HasO(source_kind)
    /\ WellFormedKind(source_kind)
    /\ occupied = {}
    /\ ~ret.raised
    /\ ret.value.n = 4

(***************************************************************************)
(* C8: prune_all_beams returns, in the original order and grouped per node *)
(* as in the input, exactly the beams none of whose cells is occupied,     *)
(* with every group left without a beam removed; all_beams is unmodified.  *)
(***************************************************************************)
Clear(beam) == \A i \in DOMAIN beam : beam[i] \notin occupied

\* the indices of f, among those in S, up to and including i
RankIn(S, i) == Cardinality({j \in S : j <= i})

\* out holds exactly the elements of in at the indices S, in order
IsSelection(out, in, S) ==
    /\ Len(out) = Cardinality(S)
    /\ \A i \in S : out[RankIn(S, i)] = in[i]

ClearBeamsOf(n) == {b \in DOMAIN all_beams[n] : Clear(all_beams[n][b])}

SurvivingNodes == {n \in DOMAIN all_beams : ClearBeamsOf(n) # {}}

IsPruned(out) ==
    /\ Len(out) = Cardinality(SurvivingNodes)
    /\ \A n \in SurvivingNodes :
         IsSelection(out[RankIn(SurvivingNodes, n)], all_beams[n], ClearBeamsOf(n))
    /\ \A g \in DOMAIN out :
         /\ out[g] # <<>>
         /\ \A b \in DOMAIN out[g] : Clear(out[g][b])

C8_PrunedExactly ==
    [][(pc = "start" /\ pc' = "prune_all_beams")
          => (all_beams' = all_beams /\ IsPruned(ret'.value))]_vars

C8_Witness ==
    /\ pc = "prune_all_beams"
    /\ Len(all_beams) = 2
    /\ Len(ret.value) = 1
    /\ Len(all_beams[1]) = 1
    /\ Len(all_beams[2]) = 2
    /\ ret.value[1] = <<all_beams[2][2]>>

(***************************************************************************)
(* C9: for every well-formed kind (exit axis marked by 'o' or by a doubled *)
(* character, with or without a trailing 'h') one rotate_o_types keeps the *)
(* exit-axis character in place, swaps the other two and keeps the 'h',    *)
(* and two applications give the kind back.                                *)
(***************************************************************************)
HasTrailingH(str) == Len(str) = 4 /\ str[4] = "h"

RawOccurrences(str, c) == {i \in 1..3 : str[i] = c}

MarkedByO(str) == Cardinality(RawOccurrences(str, "o")) = 1

MarkedByDoubledChar(str) ==
    /\ RawOccurrences(str, "o") = {}
    /\ \E c \in Chars : Cardinality(RawOccurrences(str, c)) = 2

\* the exit axis of a kind: its 'o', else the odd one out of a doubled kind
ExitAxis(str) ==
    IF MarkedByO(str)
    THEN CHOOSE i \in 1..3 : str[i] = "o"
    ELSE CHOOSE i \in 1..3 : Cardinality(RawOccurrences(str, str[i])) = 1

\* r is k with the exit-axis character in place and the other two swapped
IsRotationOf(r, k) ==
    LET e == ExitAxis(k)
        a == CHOOSE i \in 1..3 : i # e
        b == CHOOSE i \in 1..3 : i # e /\ i # a
    IN  /\ Len(r) = Len(k)
        /\ r[e] = k[e]
        /\ r[a] = k[b]
        /\ r[b] = k[a]
        /\ HasTrailingH(r) <=> HasTrailingH(k)

RotationContract(covered) ==
    (pc = "rotate_o_types" /\ covered)
        => /\ ~ret.raised
           /\ rotations = 1 => IsRotationOf(ret.value, pipe_type)
           /\ rotations = 2 => ret.value = pipe_type

C9_InvolutionOnWellFormed ==
    RotationContract(MarkedByO(pipe_type) \/ MarkedByDoubledChar(pipe_type))

\* C9 as amended: for every kind whose three base characters contain
\* exactly one literal 'o', with or without a trailing 'h', one
\* rotate_o_types keeps the exit-axis character in place, swaps the other
\* two and keeps the 'h', and two applications give the kind back; a kind
\* marked only by a doubled character is rejected with an error.
C9_InvolutionOnOKinds ==
    /\ RotationContract(MarkedByO(pipe_type))
    /\ (pc = "rotate_o_types" /\ MarkedByDoubledChar(pipe_type)) => ret.raised

C9_Witness ==
    /\ pc = "rotate_o_types"
    /\ rotations = 2
    /\ pipe_type = <<"z", "x", "o", "h">>
    /\ ret.value = pipe_type

(***************************************************************************)
(* C4: the first element of each path is indexed by the declared start id, *)
(* the last by the declared end id, and every element strictly between     *)
(* them gets an id greater than every endpoint id and distinct from the id *)
(* of every other intermediate element, from one counter that starts at    *)
(* the greatest endpoint id plus 1 and is incremented once per element.    *)
(***************************************************************************)
EndpointIds ==
    UNION {{edge_paths[p].src_tgt_ids[1], edge_paths[p].src_tgt_ids[2]} : p \in DOMAIN edge_paths}

\* <<p, i>>: entry i of path p lies strictly between the first and the last
IntermediatePlaces(keys) ==
    {pl \in (DOMAIN keys) \X (1..MaxPathLen + 1) :
        pl[2] > 1 /\ pl[2] < Len(edge_paths[pl[1]].path_nodes)}

GreatestEndpointId == CHOOSE m \in EndpointIds \cup {0} : \A k \in EndpointIds \cup {0} : k <= m

AllPathsAlternate ==
    \A p \in DOMAIN edge_paths : Len(edge_paths[p].path_nodes) % 2 = 1

DictValues(d) == {d[i][2] : i \in DOMAIN d}

C5_EveryBlockAndPipeKept ==
    (pc = "build_newly_indexed_path_dict" /\ AllPathsAlternate) =>
        /\ ~ret.raised
        /\ LET keys == indexed_paths(edge_paths).keys
           IN  \A p \in DOMAIN edge_paths :
                 LET nodes == edge_paths[p].path_nodes
                 IN  /\ \A i \in DOMAIN nodes :
                          i % 2 = 1 => nodes[i] \in DictValues(ret.value.nodes)
                     /\ \A i \in DOMAIN nodes :
                          (i % 2 = 1 /\ i + 2 <= Len(nodes)) =>
                             /\ DictHas(ret.value.edges, <<keys[p][i], keys[p][i + 2]>>)
                             /\ DictGet(ret.value.edges, <<keys[p][i], keys[p][i + 2]>>)
                                    = nodes[i + 1][2]

(***************************************************************************)
(* C6: degenerate paths are valid input and never raise: an empty path     *)
(* contributes nothing, a path with fewer than 2 block entries (a single   *)
(* block, or a block followed by one further entry) contributes its block  *)
(* node(s) and no edge, and the other paths are assembled normally.        *)
(***************************************************************************)
IsDegenerate(p) == Len(edge_paths[p].path_nodes) <= 2

C6_DegeneratePathsAccepted ==
    (pc = "build_newly_indexed_path_dict" /\ \E p \in DOMAIN edge_paths : IsDegenerate(p)) =>
        /\ ~ret.raised
        /\ \A p \in DOMAIN edge_paths :
             (IsDegenerate(p) /\ Len(edge_paths[p].path_nodes) >= 1)
                => edge_paths[p].path_nodes[1] \in DictValues(ret.value.nodes)
        /\ (\A p \in DOMAIN edge_paths : IsDegenerate(p)) => ret.value.edges = <<>>

(***************************************************************************)
(* C10: for a step in {3, 6, 9} or a multiple of 3 greater than 9, every   *)
(* coordinate the generator returns is at Manhattan distance exactly step  *)
(* from the source, is not in occupied, and occurs once in the result.     *)
(***************************************************************************)
C10_CandidatesAtStepFreeAndDistinct ==
    (pc = "generated" /\ step >= 3 /\ IsMultipleOf3(step)) =>
        \A i \in DOMAIN ret.value :
            /\ Distance(source_coord, ret.value[i]) = step
            /\ ret.value[i] \notin occupied
            /\ \A j \in DOMAIN ret.value : j # i => ret.value[j] # ret.value[i]

\* a randomized search that met an occupied candidate and still filled up
C10_Witness ==
    /\ pc = "generated"
    /\ step = 12
    /\ <<12, 0, 0>> \in occupied
    /\ attempts >= 3
    /\ Len(ret.value) >= 12
    /\ \E i \in DOMAIN ret.value : ret.value[i] = <<0, 12, 0>>

====
